---- MODULE Spec2Model ----
(***************************************************************************)
(* A model of script.js, the dinner picker: the meal list and the history  *)
(* kept in localStorage, the pending pick (currentPickedMeal), the weighted *)
(* random pick, the commit of a pick to the history and the rendering of    *)
(* the recent history.                                                      *)
(*                                                                          *)
(* Strings are sequences of one-character strings, so that trim() and ===   *)
(* are computed and not assumed.  Time is counted in days: DAY stands for   *)
(* the source's 24 * 60 * 60 * 1000 ms (the product itself does not fit the *)
(* model checker's integers), so RECENT_DAYS_MS is 30 * DAY.  A value of    *)
(* Math.random() is a rational <<num, den>> with 0 <= num < den.            *)
(* localStorage holds JSON text; the model keeps the parsed value, the      *)
(* lists of strings and of {meal, date} records with integer dates that     *)
(* JSON.stringify / JSON.parse carry over unchanged.                        *)
(***************************************************************************)
EXTENDS Integers, Sequences, FiniteSets

VARIABLES
    mealItem,           \* localStorage[MEAL_LIST_KEY]: <<>> (no item) or <<list>>
    historyItem,        \* localStorage[HISTORY_KEY]:   <<>> (no item) or <<list>>
    currentPickedMeal,  \* the global of line 18
    pickerMessage,      \* pickerMessage.textContent
    chosenMealDisplay,  \* chosenMealDisplay.textContent
    resultAreaHidden,   \* resultArea.classList has 'hidden'
    pickMealBtnHidden,  \* pickMealBtn.classList has 'hidden'
    mealListUl,         \* the rendered meal list (one delete button per item)
    historyUl,          \* the rendered history list
    clock,              \* what Date.now() returns
    domLoaded,          \* the DOMContentLoaded listener has run
    mealWeights,        \* locals of the last call, if the last handler made it: pickWeightedMeal
    weightedList,
    randomValue,        \* what Math.random() returned in it
    randomIndex,
    recentHistory,      \* local of renderHistory
    picks,              \* history variable: successful picks so far
    lastReturned        \* history variable: what the last pickWeightedMeal returned

vars == <<mealItem, historyItem, currentPickedMeal, pickerMessage,
          chosenMealDisplay, resultAreaHidden, pickMealBtnHidden, mealListUl,
          historyUl, clock, domLoaded, mealWeights, weightedList,
          randomValue, randomIndex, recentHistory, picks, lastReturned>>

----------------------------------------------------------------------------
(* Program constants *)

DAY == 1

RECENT_DAYS_MS == 30 * DAY

DEFAULT_WEIGHT == 10

REDUCED_WEIGHT == 1

MAX_RECENT_ITEMS == 10

\* null: a value no string equals (no character is "null")
Null == <<"null">>

Tacos == <<"T", "a", "c", "o", "s">>
Spaghetti == <<"S", "p", "a", "g", "h", "e", "t", "t", "i">>
ChickenStirFry == <<"C", "h", "i", "c", "k", "e", "n", " ",
                    "S", "t", "i", "r", "-", "F", "r", "y">>
Sushi == <<"S", "u", "s", "h", "i">>
Steak == <<"S", "t", "e", "a", "k">>

DefaultMeals == <<Tacos, Spaghetti, ChickenStirFry, Sushi, Steak>>

\* the texts written to pickerMessage
MsgEmpty == <<>>
MsgAddFirst == <<"Please add some meals first!">>
MsgNote(meal) == <<"Note: reduced chance (weight: 1), eaten recently", meal>>
MsgConfirmed(meal) == <<"Confirmed! History updated!", meal>>
MsgCanceled == <<"Meal choice canceled. Pick again!">>

\* the item renderHistory shows when nothing is recent
NoRecentItem == <<"No meals eaten in the last 30 days.">>

----------------------------------------------------------------------------
(* Bounds of the model *)

MaxHistory == 2         \* confirmMeal is not taken with this many entries stored
MaxPicks == 2           \* successful picks counted
MaxStoredMeals == 2     \* length of a stored meal list a page load may find
MaxStoredHistory == 2   \* length of a stored history a pick may find
MaxMixedHistory == 6    \* length of a stored history with entries of any age
MaxRenderedHistory == 11 \* length of a stored history of recent entries

----------------------------------------------------------------------------
(* Helpers: JavaScript built-ins *)

WhiteSpace == {" ", "\t", "\n"}

RECURSIVE TrimStart(_)
TrimStart(s) ==
    IF s # <<>> /\ Head(s) \in WhiteSpace THEN TrimStart(Tail(s)) ELSE s

RECURSIVE TrimEnd(_)
TrimEnd(s) ==
    IF s # <<>> /\ s[Len(s)] \in WhiteSpace
    THEN TrimEnd(SubSeq(s, 1, Len(s) - 1))
    ELSE s

\* String.prototype.trim
Trim(s) == TrimEnd(TrimStart(s))

\* a value in a condition: null and '' are falsy, every other string truthy
Truthy(v) == v # Null /\ v # <<>>

\* Array.prototype.includes
Includes(list, x) == \E i \in 1..Len(list) : list[i] = x

Max(a, b) == IF a >= b THEN a ELSE b

\* mutant: Math.floor(r * (n - 1))
FloorTimesShort(r, n) == (r[1] * (n - 1)) \div r[2]

\* Math.floor(r * n) for r = <<num, den>>
FloorTimes(r, n) == (r[1] * n) \div r[2]

\* n copies of x
Repeat(x, n) == [i \in 1..n |-> x]

----------------------------------------------------------------------------
(* Data management *)

loadMeals == IF Len(mealItem) = 0 THEN DefaultMeals ELSE mealItem[1]

loadHistory == IF Len(historyItem) = 0 THEN <<>> ELSE historyItem[1]

\* saveMeals(meals) and saveHistory(history): the item as stored
Saved(value) == <<value>>

\* renderMealList(meals): one item, with its delete button, per meal
renderMealList(meals) == meals

----------------------------------------------------------------------------
(* renderHistory *)

\* history.filter(item => item.date > cutoffDate)
FilterRecent(history, cutoffDate) ==
    SelectSeq(history, LAMBDA item : item.date > cutoffDate)

\* mutant: x goes before the elements of its own date
RECURSIVE InsertByDateUnstable(_, _)
InsertByDateUnstable(sorted, x) ==
    IF sorted # <<>> /\ Head(sorted).date > x.date
    THEN <<Head(sorted)>> \o InsertByDateUnstable(Tail(sorted), x)
    ELSE <<x>> \o sorted

\* one step of the sort: x goes behind every element the comparator
\* (a, b) => b.date - a.date does not put after it (the sort is stable)
RECURSIVE InsertByDate(_, _)
InsertByDate(sorted, x) ==
    IF sorted # <<>> /\ Head(sorted).date >= x.date
    THEN <<Head(sorted)>> \o InsertByDate(Tail(sorted), x)
    ELSE <<x>> \o sorted

\* .sort((a, b) => b.date - a.date)
RECURSIVE SortByMostRecent(_)
SortByMostRecent(s) ==
    IF s = <<>> THEN <<>>
    ELSE InsertByDate(SortByMostRecent(SubSeq(s, 1, Len(s) - 1)), s[Len(s)])

\* .slice(0, n)
SliceFirst(s, n) == SubSeq(s, 1, IF Len(s) < n THEN Len(s) ELSE n)

\* the recentHistory of renderHistory(history), run at time now
RecentHistoryOf(history, now) ==
    LET cutoffDate == now - RECENT_DAYS_MS
    IN  SliceFirst(SortByMostRecent(FilterRecent(history, cutoffDate)),
                   MAX_RECENT_ITEMS)

\* new Date(date).toLocaleDateString(): the calendar day of the instant
toLocaleDateString(date) == date \div DAY

\* what renderHistory leaves in historyUl
HistoryItems(recent) ==
    IF Len(recent) = 0 THEN <<NoRecentItem>>
    ELSE [i \in 1..Len(recent) |->
             <<recent[i].meal, toLocaleDateString(recent[i].date)>>]

----------------------------------------------------------------------------
(* pickWeightedMeal *)

\* mutant: Math.min for Math.max
RECURSIVE ReduceEarliest(_, _)
ReduceEarliest(items, latest) ==
    IF items = <<>> THEN latest
    ELSE ReduceEarliest(Tail(items),
                        IF latest <= Head(items).date THEN latest
                        ELSE Head(items).date)

\* .reduce((latest, item) => Math.max(latest, item.date), 0)
RECURSIVE ReduceLatest(_, _)
ReduceLatest(items, latest) ==
    IF items = <<>> THEN latest
    ELSE ReduceLatest(Tail(items), Max(latest, Head(items).date))

\* lastEaten: the last time this meal was eaten, 0 when it never was
LastEaten(meal, history) ==
    ReduceLatest(SelectSeq(history, LAMBDA item : item.meal = meal), 0)

\* isRecent ? 1 : 10
WeightOf(meal, history, now) ==
    LET isRecent == (now - LastEaten(meal, history)) < RECENT_DAYS_MS
    IN  IF isRecent THEN REDUCED_WEIGHT ELSE DEFAULT_WEIGHT

\* meals.map(meal => ({meal, weight}))
MealWeightsOf(meals, history, now) ==
    [i \in 1..Len(meals) |->
        [meal |-> meals[i], weight |-> WeightOf(meals[i], history, now)]]

\* mutant: i <= item.weight for i < item.weight
RECURSIVE WeightedListOfOneMore(_)
WeightedListOfOneMore(mw) ==
    IF mw = <<>> THEN <<>>
    ELSE Repeat(Head(mw).meal, Head(mw).weight + 1)
             \o WeightedListOfOneMore(Tail(mw))

\* each meal pushed weight times, in the order of mealWeights
RECURSIVE WeightedListOf(_)
WeightedListOf(mw) ==
    IF mw = <<>> THEN <<>>
    ELSE Repeat(Head(mw).meal, Head(mw).weight) \o WeightedListOf(Tail(mw))

\* mutant: mealWeights[0] for the item found
FindWeightInfoFirst(mw, chosenMeal) == mw[1]

\* mealWeights.find(item => item.meal === chosenMeal): the first such item
FindWeightInfo(mw, chosenMeal) ==
    mw[CHOOSE i \in 1..Len(mw) :
           /\ mw[i].meal = chosenMeal
           /\ \A j \in 1..(i - 1) : mw[j].meal # chosenMeal]

\* pickWeightedMeal() with Math.random() = r: what it returns, the message it
\* leaves and its locals
pickWeightedMeal(meals, history, now, r) ==
    IF Len(meals) = 0
    THEN [ret |-> Null, message |-> MsgAddFirst, mealWeights |-> <<>>,
          weightedList |-> <<>>, randomValue |-> <<>>, randomIndex |-> -1]
    ELSE LET mw == MealWeightsOf(meals, history, now)
             wl == WeightedListOf(mw)
             ri == FloorTimes(r, Len(wl))
             chosenMeal == wl[ri + 1]
             weightInfo == FindWeightInfo(mw, chosenMeal)
         IN  [ret |-> chosenMeal,
              message |-> IF weightInfo.weight = 1 THEN MsgNote(chosenMeal)
                          ELSE MsgEmpty,
              mealWeights |-> mw, weightedList |-> wl, randomValue |-> r,
              randomIndex |-> ri]

----------------------------------------------------------------------------
(* Handlers.  A listener runs whenever its event arrives: the 'hidden'     *)
(* class of a button or of the result area is state the handlers set, not  *)
(* a condition any of them tests.                                           *)

\* the locals of pickWeightedMeal and renderHistory do not outlive the call
NoPickLocals ==
    /\ mealWeights' = <<>>
    /\ weightedList' = <<>>
    /\ randomValue' = <<>>
    /\ randomIndex' = -1

NoRenderLocals == recentHistory' = <<>>

\* the DOMContentLoaded listener
DOMContentLoaded ==
    /\ ~domLoaded
    /\ domLoaded' = TRUE
    /\ mealListUl' = renderMealList(loadMeals)
    /\ recentHistory' = RecentHistoryOf(loadHistory, clock)
    /\ historyUl' = HistoryItems(recentHistory')
    /\ NoPickLocals
    /\ UNCHANGED <<mealItem, historyItem, currentPickedMeal, pickerMessage,
                   chosenMealDisplay, resultAreaHidden, pickMealBtnHidden,
                   clock, picks, lastReturned>>

\* mutant: no meals.includes(newMeal) test
addMealUnchecked(value) ==
    LET newMeal == Trim(value)
        meals == loadMeals
    IN  /\ domLoaded
        /\ IF newMeal # <<>>
           THEN /\ mealItem' = Saved(Append(meals, newMeal))
                /\ mealListUl' = renderMealList(Append(meals, newMeal))
           ELSE UNCHANGED <<mealItem, mealListUl>>
        /\ NoPickLocals
        /\ NoRenderLocals
        /\ UNCHANGED <<historyItem, currentPickedMeal, pickerMessage,
                       chosenMealDisplay, resultAreaHidden, pickMealBtnHidden,
                       historyUl, clock, domLoaded, picks, lastReturned>>

\* addMeal() with newMealInput.value = value
addMeal(value) ==
    LET newMeal == Trim(value)
        meals == loadMeals
    IN  /\ domLoaded
        /\ IF newMeal # <<>> /\ ~Includes(meals, newMeal)
           THEN /\ mealItem' = Saved(Append(meals, newMeal))
                /\ mealListUl' = renderMealList(Append(meals, newMeal))
           ELSE UNCHANGED <<mealItem, mealListUl>>
        /\ NoPickLocals
        /\ NoRenderLocals
        /\ UNCHANGED <<historyItem, currentPickedMeal, pickerMessage,
                       chosenMealDisplay, resultAreaHidden, pickMealBtnHidden,
                       historyUl, clock, domLoaded, picks, lastReturned>>

\* mutant: the deleted meal's entries are taken out of the history too
deleteMealAndHistory(mealName) ==
    LET meals == SelectSeq(loadMeals, LAMBDA meal : meal # mealName)
    IN  /\ domLoaded
        /\ Includes(mealListUl, mealName)
        /\ mealItem' = Saved(meals)
        /\ mealListUl' = renderMealList(meals)
        /\ historyItem' =
              Saved(SelectSeq(loadHistory, LAMBDA item : item.meal # mealName))
        /\ NoPickLocals
        /\ NoRenderLocals
        /\ UNCHANGED <<currentPickedMeal, pickerMessage,
                       chosenMealDisplay, resultAreaHidden, pickMealBtnHidden,
                       historyUl, clock, domLoaded, picks, lastReturned>>

\* deleteMeal(mealName), from the delete button of a rendered item
deleteMeal(mealName) ==
    LET meals == SelectSeq(loadMeals, LAMBDA meal : meal # mealName)
    IN  /\ domLoaded
        /\ Includes(mealListUl, mealName)
        /\ mealItem' = Saved(meals)
        /\ mealListUl' = renderMealList(meals)
        /\ NoPickLocals
        /\ NoRenderLocals
        /\ UNCHANGED <<historyItem, currentPickedMeal, pickerMessage,
                       chosenMealDisplay, resultAreaHidden, pickMealBtnHidden,
                       historyUl, clock, domLoaded, picks, lastReturned>>

\* mutant: the pick button stays hidden when the list was empty
displayPickedMealHidesButton(r) ==
    LET res == pickWeightedMeal(loadMeals, loadHistory, clock, r)
    IN  /\ domLoaded
        /\ picks < MaxPicks
        /\ currentPickedMeal' = res.ret
        /\ pickerMessage' = res.message
        /\ mealWeights' = res.mealWeights
        /\ weightedList' = res.weightedList
        /\ randomValue' = res.randomValue
        /\ randomIndex' = res.randomIndex
        /\ pickMealBtnHidden' = TRUE
        /\ IF Truthy(res.ret)
           THEN /\ chosenMealDisplay' = res.ret
                /\ resultAreaHidden' = FALSE
           ELSE /\ resultAreaHidden' = TRUE
                /\ UNCHANGED chosenMealDisplay
        /\ picks' = IF res.ret # Null THEN picks + 1 ELSE picks
        /\ lastReturned' = res.ret
        /\ NoRenderLocals
        /\ UNCHANGED <<mealItem, historyItem, mealListUl, historyUl, clock,
                       domLoaded>>

\* displayPickedMeal(), with Math.random() = r
displayPickedMeal(r) ==
    LET res == pickWeightedMeal(loadMeals, loadHistory, clock, r)
    IN  /\ domLoaded
        /\ picks < MaxPicks
        /\ currentPickedMeal' = res.ret
        /\ pickerMessage' = res.message
        /\ mealWeights' = res.mealWeights
        /\ weightedList' = res.weightedList
        /\ randomValue' = res.randomValue
        /\ randomIndex' = res.randomIndex
        /\ IF Truthy(res.ret)
           THEN /\ chosenMealDisplay' = res.ret
                /\ resultAreaHidden' = FALSE
                /\ pickMealBtnHidden' = TRUE
           ELSE /\ resultAreaHidden' = TRUE
                /\ pickMealBtnHidden' = FALSE
                /\ UNCHANGED chosenMealDisplay
        /\ picks' = IF res.ret # Null THEN picks + 1 ELSE picks
        /\ lastReturned' = res.ret
        /\ NoRenderLocals
        /\ UNCHANGED <<mealItem, historyItem, mealListUl, historyUl, clock,
                       domLoaded>>

\* mutant: currentPickedMeal is not reset
resetPickerUIKeepsPick ==
    /\ UNCHANGED currentPickedMeal
    /\ resultAreaHidden' = TRUE
    /\ pickMealBtnHidden' = FALSE
    /\ chosenMealDisplay' = <<>>

\* resetPickerUI()
resetPickerUI ==
    /\ currentPickedMeal' = Null
    /\ resultAreaHidden' = TRUE
    /\ pickMealBtnHidden' = FALSE
    /\ chosenMealDisplay' = <<>>

\* confirmMeal()
confirmMeal ==
    /\ domLoaded
    /\ Len(loadHistory) < MaxHistory
    /\ NoPickLocals
    /\ IF ~Truthy(currentPickedMeal)
       THEN /\ NoRenderLocals
            /\ UNCHANGED <<historyItem, currentPickedMeal, pickerMessage,
                           chosenMealDisplay, resultAreaHidden,
                           pickMealBtnHidden, historyUl>>
       ELSE LET history == Append(loadHistory,
                                  [meal |-> currentPickedMeal, date |-> clock])
            IN  /\ historyItem' = Saved(history)
                /\ pickerMessage' = MsgConfirmed(currentPickedMeal)
                /\ resetPickerUI
                /\ recentHistory' = RecentHistoryOf(history, clock)
                /\ historyUl' = HistoryItems(recentHistory')
    /\ UNCHANGED <<mealItem, mealListUl, clock, domLoaded, picks, lastReturned>>

\* the click listener of cancelPickBtn
cancelPick ==
    /\ domLoaded
    /\ pickerMessage' = MsgCanceled
    /\ resetPickerUI
    /\ NoPickLocals
    /\ NoRenderLocals
    /\ UNCHANGED <<mealItem, historyItem, mealListUl, historyUl, clock,
                   domLoaded, picks, lastReturned>>

\* time passes: Date.now() moves on to a later instant
Tick(t) ==
    /\ t > clock
    /\ clock' = t
    /\ UNCHANGED <<mealItem, historyItem, currentPickedMeal, pickerMessage,
                   chosenMealDisplay, resultAreaHidden, pickMealBtnHidden,
                   mealListUl, historyUl, domLoaded, mealWeights,
                   weightedList, randomValue, randomIndex, recentHistory,
                   picks, lastReturned>>

----------------------------------------------------------------------------
(* Inputs *)

Pizza == <<"P", "i", "z", "z", "a">>

\* what the user types into newMealInput
TypedMeals == {Pizza, <<" ">> \o Pizza \o <<"\t">>, <<>>, <<" ", " ">>}

\* what the user types when only the meal list is exercised
TypedMealsWide ==
    TypedMeals \cup {Tacos, <<"t", "a", "c", "o", "s">>, <<" ">> \o Tacos,
                     <<"P", "i", " ", "z", "a">>}

\* values of Math.random(), as <<num, den>>
RandomValues == {<<0, 1>>, <<1, 2>>, <<19, 20>>, <<99, 100>>}

\* the values Math.random() takes in the application
PickedRandomValues == {<<0, 1>>, <<19, 20>>}

\* the instants the clock shows: the epoch, 30 days after it (the first day
\* outside the recency window of a meal eaten at the epoch), and 29 days
\* later (the last day inside the window of a meal eaten then)
Instants == {0, RECENT_DAYS_MS, 2 * RECENT_DAYS_MS - DAY}

\* the state after the script has run, with localStorage as found
InitWith(mealItems, historyItems, nows) ==
    /\ mealItem \in mealItems
    /\ historyItem \in historyItems
    /\ clock \in nows
    /\ currentPickedMeal = Null
    /\ pickerMessage = MsgEmpty
    /\ chosenMealDisplay = <<>>
    /\ resultAreaHidden = TRUE
    /\ pickMealBtnHidden = FALSE
    /\ mealListUl = <<>>
    /\ historyUl = <<>>
    /\ domLoaded = FALSE
    /\ mealWeights = <<>>
    /\ weightedList = <<>>
    /\ randomValue = <<>>
    /\ randomIndex = -1
    /\ recentHistory = <<>>
    /\ picks = 0
    /\ lastReturned = Null

----------------------------------------------------------------------------
(* The application, first opened with an empty localStorage, at the epoch   *)
(* or 30 days after it                                                      *)

Init == InitWith({<<>>}, {<<>>}, {0, RECENT_DAYS_MS})

Next ==
    \/ DOMContentLoaded
    \/ \E value \in TypedMeals : addMeal(value)
    \/ \E mealName \in {mealListUl[i] : i \in 1..Len(mealListUl)} :
           deleteMeal(mealName)
    \/ \E r \in PickedRandomValues : displayPickedMeal(r)
    \/ confirmMeal
    \/ cancelPick
    \/ \E t \in Instants : Tick(t)

Spec == Init /\ [][Next]_vars

----------------------------------------------------------------------------
(* The meal list alone, with more typed names, from the default list or a  *)
(* stored one                                                               *)

SeqsUpTo(S, n) == UNION {[1..k -> S] : k \in 0..n}

NoDuplicates(list) ==
    \A i, j \in 1..Len(list) : list[i] = list[j] => i = j

\* stored meal lists: addMeal and deleteMeal keep the list free of duplicates
StoredMealLists ==
    {list \in SeqsUpTo({Tacos, Pizza, Sushi}, MaxStoredMeals) :
        NoDuplicates(list)}

InitMeals ==
    InitWith({<<>>} \cup {Saved(list) : list \in StoredMealLists}, {<<>>}, {0})

NextMeals ==
    \/ DOMContentLoaded
    \/ \E value \in TypedMealsWide : addMeal(value)
    \/ \E mealName \in {mealListUl[i] : i \in 1..Len(mealListUl)} :
           deleteMeal(mealName)

SpecMeals == InitMeals /\ [][NextMeals]_vars

----------------------------------------------------------------------------
(* A pick on a page opened with a localStorage left by earlier sessions *)

\* dates of stored entries and instants of the pick: every entry is 2 days,
\* 29 days, 30 days or more than 30 days old at one of the instants, or not
\* yet eaten at it
StoredDates == {0, 2 * DAY, 3 * DAY, RECENT_DAYS_MS}

PickInstants == {2 * DAY, RECENT_DAYS_MS + 2 * DAY}

StoredHistories ==
    SeqsUpTo([meal : {Tacos, Pizza}, date : StoredDates], MaxStoredHistory)

InitPick ==
    InitWith({<<>>} \cup {Saved(list) : list \in StoredMealLists},
             {<<>>} \cup {Saved(history) : history \in StoredHistories},
             PickInstants)

NextPick ==
    \/ DOMContentLoaded
    \/ \E r \in RandomValues : displayPickedMeal(r)

SpecPick == InitPick /\ [][NextPick]_vars

----------------------------------------------------------------------------
(* The history rendered on a page opened with a stored history *)

RenderInstant == RECENT_DAYS_MS

\* exactly 30 days old, 29 days old, eaten today
RenderedDates == {0, DAY, RECENT_DAYS_MS}

RenderedMeals == <<Tacos, Pizza, Sushi>>

\* the entries of a history with the given dates; neighbours differ in meal
HistoryWithDates(dates) ==
    [i \in 1..Len(dates) |->
        [meal |-> RenderedMeals[(i % 3) + 1], date |-> dates[i]]]

\* short histories over all dates, and long ones of recent entries, longer
\* than the list shown
RenderedHistories ==
    {HistoryWithDates(dates) :
        dates \in SeqsUpTo(RenderedDates, MaxMixedHistory)
                  \cup SeqsUpTo(RenderedDates \ {0}, MaxRenderedHistory)}

InitRender ==
    InitWith({<<>>}, {Saved(history) : history \in RenderedHistories},
             {RenderInstant})

NextRender == DOMContentLoaded

SpecRender == InitRender /\ [][NextRender]_vars

----------------------------------------------------------------------------
(* Claims about pickWeightedMeal, under SpecPick *)

\* a call of pickWeightedMeal has just run on a non-empty list: its locals
\* are there, and the meals, the history and the clock are those it read
PickRan == Len(mealWeights) > 0

\* the dates of the history entries of a meal
DatesOf(meal) ==
    {loadHistory[k].date : k \in {n \in 1..Len(loadHistory) :
                                      loadHistory[n].meal = meal}}

Largest(S) == CHOOSE d \in S : \A e \in S : e <= d

\* the weight the pick computed for a meal of the list
ComputedWeight(meal) ==
    mealWeights[CHOOSE i \in 1..Len(mealWeights) :
                    mealWeights[i].meal = meal].weight

\* C1: the weight a pick assigns to a meal is 10 if the meal never appears
\* in the history, 1 if the largest date t among its entries has
\* now - t < 30 days, and 10 if that date is 30 days old or more; no other
\* weight is produced.
C1_WeightByRecency ==
    PickRan =>
        /\ Len(mealWeights) = Len(loadMeals)
        /\ \A i \in 1..Len(mealWeights) :
              LET meal == mealWeights[i].meal
                  weight == mealWeights[i].weight
                  dates == DatesOf(meal)
              IN  /\ meal = loadMeals[i]
                  /\ weight \in {1, 10}
                  /\ dates = {} => weight = 10
                  /\ dates # {} /\ clock - Largest(dates) < 30 * DAY
                        => weight = 1
                  /\ dates # {} /\ clock - Largest(dates) >= 30 * DAY
                        => weight = 10

\* What does hold: the claim for every pick made 30 days or more after the
\* epoch; before that a meal that was never eaten gets weight 1.
C1_WeightByRecencyLateClock ==
    PickRan =>
        \A i \in 1..Len(mealWeights) :
            LET meal == mealWeights[i].meal
                weight == mealWeights[i].weight
                dates == DatesOf(meal)
            IN  /\ weight \in {1, 10}
                /\ dates = {} => weight = (IF clock >= 30 * DAY THEN 10 ELSE 1)
                /\ dates # {} /\ clock - Largest(dates) < 30 * DAY
                      => weight = 1
                /\ dates # {} /\ clock - Largest(dates) >= 30 * DAY
                      /\ clock >= 30 * DAY
                      => weight = 10

\* C2: the pool holds each meal exactly weight(meal) times, so its length is
\* the sum of the weights and at most 10 times the number of meals; the
\* index floor(r * pool.length) lies in [0, pool.length); the meal returned
\* is the pool's element at that index and a member of the meal list.
C2_PoolAndIndex ==
    PickRan =>
        LET n == Len(weightedList)
            count(meal) == Cardinality({k \in 1..n : weightedList[k] = meal})
            listed == {loadMeals[i] : i \in 1..Len(loadMeals)}
        IN  /\ \A i \in 1..Len(loadMeals) :
                   count(loadMeals[i]) = mealWeights[i].weight
            /\ \A k \in 1..n : weightedList[k] \in listed
            /\ n <= 10 * Len(loadMeals)
            /\ randomIndex >= 0
            /\ randomIndex < n
            /\ randomIndex * randomValue[2] <= randomValue[1] * n
            /\ randomValue[1] * n < (randomIndex + 1) * randomValue[2]
            /\ currentPickedMeal = weightedList[randomIndex + 1]
            /\ currentPickedMeal \in listed
            /\ lastReturned = currentPickedMeal

\* a pool of both weights, and the draw of its last element
C2_Witness ==
    /\ PickRan
    /\ \E i, j \in 1..Len(mealWeights) :
          mealWeights[i].weight = 1 /\ mealWeights[j].weight = 10
    /\ randomIndex = Len(weightedList) - 1
    /\ Len(weightedList) > Len(mealWeights)

\* the scenario of C3: two meals, Pizza eaten 2 days before the pick
C3_Scenario ==
    /\ PickRan
    /\ loadMeals = <<Tacos, Pizza>>
    /\ loadHistory = <<[meal |-> Pizza, date |-> clock - 2 * DAY]>>

\* 0.95
NineteenTwentieths == <<19, 20>>

\* C3: in the scenario the weights are Tacos = 10 and Pizza = 1, and a pick
\* whose random source returns 0.95 selects Tacos.  (Stated for the picks
\* made 30 days or more after the epoch, where the weights are those of the
\* claim: what fails there fails whatever weight a never-eaten meal gets
\* before.)
C3_SelectsTacos ==
    C3_Scenario /\ clock >= 30 * DAY =>
        /\ mealWeights[1] = [meal |-> Tacos, weight |-> 10]
        /\ mealWeights[2] = [meal |-> Pizza, weight |-> 1]
        /\ randomValue = NineteenTwentieths => currentPickedMeal = Tacos

\* C3 as amended: in the scenario Pizza's weight is 1, Tacos's weight is 10
\* when the pick is made 30 days or more after the epoch (and 1 before), and
\* a pick whose random source returns 0.95 selects Pizza, the pool's last
\* element.
C3_SelectsPizza ==
    C3_Scenario =>
        /\ mealWeights[1] =
              [meal |-> Tacos, weight |-> IF clock >= 30 * DAY THEN 10 ELSE 1]
        /\ mealWeights[2] = [meal |-> Pizza, weight |-> 1]
        /\ randomValue = NineteenTwentieths =>
              /\ currentPickedMeal = Pizza
              /\ randomIndex = Len(weightedList) - 1

\* the scenario, late enough for the pool of 11, with the draw of 0.95
C3_Witness ==
    /\ C3_Scenario
    /\ clock >= 30 * DAY
    /\ Len(weightedList) = 11
    /\ randomValue = NineteenTwentieths
    /\ randomIndex = 10
    /\ currentPickedMeal = Pizza

\* C5: a successful pick leaves the 'reduced chance' note for the selected
\* meal if and only if the weight computed for that meal in the same pick
\* is 1; otherwise it leaves no message.
C5_NoteIffWeightOne ==
    PickRan =>
        /\ pickerMessage = MsgNote(currentPickedMeal)
              <=> ComputedWeight(currentPickedMeal) = 1
        /\ pickerMessage \in {MsgNote(currentPickedMeal), MsgEmpty}

\* a penalized meal is drawn from a pool that also holds meals of weight 10
C5_Witness ==
    /\ PickRan
    /\ pickerMessage = MsgNote(currentPickedMeal)
    /\ ComputedWeight(currentPickedMeal) = 1
    /\ \E i \in 1..Len(mealWeights) : mealWeights[i].weight = 10

----------------------------------------------------------------------------
(* Claims about the application, under Spec *)

\* the handlers, with any input
AnyAddMeal == \E value \in TypedMeals : addMeal(value)

AnyDeleteMeal ==
    \E mealName \in {mealListUl[i] : i \in 1..Len(mealListUl)} :
        deleteMeal(mealName)

AnyPick == \E r \in RandomValues : displayPickedMeal(r)

\* C4: a pick on an empty meal list returns null and leaves the 'add some
\* meals first' prompt, no pending pick (currentPickedMeal null, result area
\* hidden, pick button shown), and the stored meal list and history as they
\* were.
C4_EmptyListPick ==
    [][(AnyPick /\ Len(loadMeals) = 0) =>
          /\ lastReturned' = Null
          /\ currentPickedMeal' = Null
          /\ pickerMessage' = MsgAddFirst
          /\ resultAreaHidden' = TRUE
          /\ pickMealBtnHidden' = FALSE
          /\ mealItem' = mealItem
          /\ historyItem' = historyItem
          /\ picks' = picks]_vars

\* an empty-list pick has run, with a history stored
C4_Witness ==
    /\ Len(loadMeals) = 0
    /\ Len(loadHistory) > 0
    /\ pickerMessage = MsgAddFirst
    /\ lastReturned = Null
    /\ currentPickedMeal = Null

\* s is t with one or more entries added at the end, or t itself
IsPrefix(t, s) == Len(t) <= Len(s) /\ SubSeq(s, 1, Len(t)) = t

\* C8: confirmMeal with a pending pick appends exactly one entry, the pending
\* meal with the current time, and keeps every earlier entry in place;
\* addMeal, deleteMeal, a pick and a cancel leave the stored history as it
\* is; the history never gets shorter.
C8_HistoryAppendOnly ==
    [][/\ (confirmMeal /\ currentPickedMeal # Null) =>
             loadHistory' = loadHistory \o
                 <<[meal |-> currentPickedMeal, date |-> clock]>>
       /\ (AnyAddMeal \/ AnyDeleteMeal \/ AnyPick \/ cancelPick) =>
             historyItem' = historyItem
       /\ IsPrefix(loadHistory, loadHistory')
       /\ Len(loadHistory') <= Len(loadHistory) + 1]_vars

\* two picks were confirmed, the second later than the first
C8_Witness ==
    /\ Len(loadHistory) = 2
    /\ loadHistory[1].date < loadHistory[2].date
    /\ pickerMessage = MsgConfirmed(loadHistory[2].meal)
    /\ currentPickedMeal = Null

\* C9: once a pick of meal M was confirmed at time t, every later pick made
\* at a time now with now - t < 30 days, with M on the meal list, computes
\* weight 1 for M.  (A confirmed pick is an entry of the stored history.)
C9_RecentlyEatenWeightOne ==
    [][AnyPick =>
          \A k \in 1..Len(loadHistory) :
              \A i \in 1..Len(mealWeights') :
                  (/\ mealWeights'[i].meal = loadHistory[k].meal
                   /\ clock - loadHistory[k].date < 30 * DAY)
                      => mealWeights'[i].weight = 1]_vars

\* a later pick, 30 days or more after the epoch, that finds a meal eaten
\* less than 30 days before and weighs it 1, among meals it weighs 10
C9_Witness ==
    /\ PickRan
    /\ clock >= 30 * DAY
    /\ \E k \in 1..Len(loadHistory) :
          /\ clock > loadHistory[k].date
          /\ clock - loadHistory[k].date < 30 * DAY
          /\ \E i, j \in 1..Len(mealWeights) :
                /\ mealWeights[i] =
                      [meal |-> loadHistory[k].meal, weight |-> 1]
                /\ mealWeights[j].weight = 10

\* C10: confirmMeal with no pending pick changes nothing; confirm and cancel
\* clear the pending pick; the history holds at most as many entries as
\* there were successful picks, and an entry added holds the meal the most
\* recent pick returned.
C10_CommittedAtMostOnce ==
    [][/\ (confirmMeal /\ currentPickedMeal = Null) =>
             UNCHANGED <<mealItem, historyItem, currentPickedMeal,
                         pickerMessage, chosenMealDisplay, resultAreaHidden,
                         pickMealBtnHidden, mealListUl, historyUl, picks,
                         lastReturned>>
       /\ (confirmMeal \/ cancelPick) => currentPickedMeal' = Null
       /\ Len(loadHistory') +
             (IF currentPickedMeal' # Null THEN 1 ELSE 0) <= picks'
       /\ Len(loadHistory') > Len(loadHistory) =>
             /\ Len(loadHistory') = Len(loadHistory) + 1
             /\ loadHistory'[Len(loadHistory')].meal = lastReturned
             /\ lastReturned # Null]_vars

\* a confirmed pick, then a canceled one: one entry for two picks
C10_Witness ==
    /\ picks = 2
    /\ Len(loadHistory) = 1
    /\ pickerMessage = MsgCanceled
    /\ currentPickedMeal = Null
    /\ lastReturned # Null
    /\ lastReturned # loadHistory[1].meal

----------------------------------------------------------------------------
(* Claim about renderHistory, under SpecRender *)

\* the entries of s with the given date, in their order
WithDate(s, date) == SelectSeq(s, LAMBDA item : item.date = date)

\* how many entries of the stored history are recent, and how many of them
\* are later than a date
Qualifying == {k \in 1..Len(loadHistory) :
                  loadHistory[k].date > clock - 30 * DAY}

QualifyingAfter(date) == {k \in Qualifying : loadHistory[k].date > date}

\* C6: the recent history holds only entries with date > now - 30 days, in
\* order of non-increasing date, entries of equal date in their original
\* order, at most 10 of them; when more than 10 entries qualify it holds the
\* 10 of the largest dates.
C6_RecentHistory ==
    domLoaded =>
        LET n == Len(recentHistory)
            dates == {loadHistory[k].date : k \in 1..Len(loadHistory)}
            room(date) == 10 - Cardinality(QualifyingAfter(date))
        IN  /\ \A i \in 1..n : recentHistory[i].date > clock - 30 * DAY
            /\ \A i \in 1..n : \A j \in (i + 1)..n :
                   recentHistory[i].date >= recentHistory[j].date
            /\ n <= 10
            /\ n = (IF Cardinality(Qualifying) > 10 THEN 10
                    ELSE Cardinality(Qualifying))
            /\ \A i \in 1..n : recentHistory[i].date \in dates
            /\ \A date \in dates :
                   LET shown == WithDate(recentHistory, date)
                       stored == WithDate(loadHistory, date)
                   IN  /\ IsPrefix(shown, stored)
                       /\ date > clock - 30 * DAY /\ room(date) >= Len(stored)
                             => shown = stored
                       /\ date > clock - 30 * DAY /\ room(date) < Len(stored)
                             => Len(shown) = (IF room(date) > 0 THEN room(date)
                                              ELSE 0)
            /\ historyUl = HistoryItems(recentHistory)

\* more than 10 recent entries of two dates stored, the later date after the
\* earlier: the list shown is cut inside the entries of the earlier date
C6_Witness ==
    /\ domLoaded
    /\ Len(recentHistory) = 10
    /\ Cardinality(Qualifying) > 10
    /\ loadHistory[1].date < loadHistory[Len(loadHistory)].date
    /\ recentHistory[1].date > recentHistory[10].date
    /\ recentHistory[9].date = recentHistory[10].date
    /\ recentHistory[9].meal # recentHistory[10].meal

----------------------------------------------------------------------------
(* Claim about the meal list, under SpecMeals *)

\* name is text without the white space at its ends
IsTrimOf(text, name) ==
    \E a \in 1..(Len(text) + 1) : \E b \in (a - 1)..Len(text) :
        /\ name = SubSeq(text, a, b)
        /\ \A k \in (1..(a - 1)) \cup ((b + 1)..Len(text)) :
               text[k] \in WhiteSpace
        /\ a <= b => text[a] \notin WhiteSpace /\ text[b] \notin WhiteSpace

\* list without its element at index k
Without(list, k) == SubSeq(list, 1, k - 1) \o SubSeq(list, k + 1, Len(list))

\* C7: the stored meal list never holds a name twice; addMeal of a name
\* already on the list (the same characters, after trimming) leaves the list
\* as it is, addMeal of a new non-empty name puts it once at the end, and
\* deleteMeal takes the name off the list and nothing else.
C7_NoDuplicateMeals ==
    [][/\ NoDuplicates(loadMeals')
       /\ \A value \in TypedMealsWide : addMeal(value) =>
             \E name \in {SubSeq(value, a, b) :
                             a \in 1..(Len(value) + 1), b \in 0..Len(value)} :
                 /\ IsTrimOf(value, name)
                 /\ loadMeals' =
                       (IF name = <<>> \/ name \in {loadMeals[i] :
                                                      i \in 1..Len(loadMeals)}
                        THEN loadMeals
                        ELSE loadMeals \o <<name>>)
       /\ \A mealName \in {mealListUl[i] : i \in 1..Len(mealListUl)} :
             deleteMeal(mealName) =>
                 /\ \A i \in 1..Len(loadMeals') : loadMeals'[i] # mealName
                 /\ \E k \in 1..Len(loadMeals) :
                       /\ loadMeals[k] = mealName
                       /\ loadMeals' = Without(loadMeals, k)]_vars

\* Tacos deleted and typed again, behind a name that differs from it in case
\* only and a name typed with white space around it
C7_Witness ==
    /\ Len(loadMeals) >= 3
    /\ loadMeals[Len(loadMeals)] = Tacos
    /\ \E i, j \in 1..(Len(loadMeals) - 1) :
          /\ loadMeals[i] = <<"t", "a", "c", "o", "s">>
          /\ loadMeals[j] = Pizza
    /\ NoDuplicates(loadMeals)

====
